---- MODULE Spec2Model ----
(***************************************************************************)
(* Model of the DeFiGuardian ML agent: feature computation                 *)
(* (agent/src/features.py), the fraud detector (agent/src/model.py) and    *)
(* the server-sent-event fan-out of the service (agent/main.py).           *)
(*                                                                         *)
(* Specifications                                                          *)
(*  - Spec: one call of one function per behaviour.                        *)
(*  - SpecConcurrent: request threads interleaved inside compute_features. *)
(*  - SpecSse: clients of /events and threads inside sse_publish.          *)
(*                                                                         *)
(* Representation choices                                                  *)
(*  - A Python str is a sequence of one-character strings, so that         *)
(*    str.lower() and int(str) are computed character by character.        *)
(*  - A dictionary entry is a tagged value: Absent (key missing), None,    *)
(*    Str(s) or IntV(n).                                                    *)
(*  - A Python number is an exact rational [n, d] in lowest terms, d > 0;  *)
(*    floating-point rounding is not modelled.                             *)
(*  - Amounts of wei are written in units of 10^17 wei (TLC integers are   *)
(*    32 bits wide), so the divisor 1e18 of wei_to_ether is 10 units.      *)
(***************************************************************************)
EXTENDS Integers, Sequences, FiniteSets, TLC

VARIABLES
    pc,                \* "start": call pending; "done": call returned or raised
    op,                \* the function being called
    args,              \* its arguments
    result,            \* its outcome: [raised, exc, value]
    feature_defaults,  \* the module-level dict FEATURE_DEFAULTS
    detector,          \* the FraudDetector instance: model, scaler, encoders, explainer
    hash_seed,         \* the process's string-hash randomisation seed
    oracle,            \* what the opaque classifier answers for this call
    calls,             \* how often predict reached _preprocess / predict_proba
    threads,           \* request threads inside compute_features: [pc, args, features, result]
    sse_clients,       \* main.py: the list of registered client queues
    sse_clients_lock,  \* main.py: "free", or who holds the lock
    queues,            \* the content of each client's queue
    publisher,         \* threads inside sse_publish: [pc, payload, index, dead]
    stream,            \* each client's sse_stream generator: [pc, received]
    sse_log            \* history: events published, registrations, removals, errors

call_vars == <<pc, op, args, result, detector, hash_seed, oracle, calls>>
sse_vars == <<sse_clients, sse_clients_lock, queues, publisher, stream, sse_log>>
vars == <<call_vars, feature_defaults, threads, sse_vars>>

----------------------------------------------------------------------------
(* Bounds *)

MaxTxs == 3        \* native plus token records per compute_features call
MaxTs == 3         \* timestamps per direct compute_avg_time_between call
ProbSteps == 100   \* the classifier's probability is k / ProbSteps
MaxTopN == 9       \* explain is asked for -MaxTopN..MaxTopN entries
MaxThreads == 2    \* request threads inside compute_features at once
MaxClients == 2    \* SSE clients that connect
MaxQueue == 2      \* maxsize of a client queue (256 in main.py)
MaxEvents == 3     \* events published

----------------------------------------------------------------------------
(* Python values *)

Absent == [tag |-> "absent"]
None == [tag |-> "None"]
Str(s) == [tag |-> "str", s |-> s]
IntV(n) == [tag |-> "int", n |-> n]

\* dict.get(key, default)
Get(tx, key, default) == IF tx[key].tag = "absent" THEN default ELSE tx[key]

\* bool(v) for the values a record field can hold
Truthy(v) ==
    CASE v.tag = "absent" -> FALSE
      [] v.tag = "None" -> FALSE
      [] v.tag = "str" -> v.s # <<>>
      [] v.tag = "int" -> v.n # 0

\* str.lower()
Lower(s) ==
    LET LowerChar(c) ==
            CASE c = "A" -> "a" [] c = "B" -> "b" [] c = "C" -> "c"
              [] c = "D" -> "d" [] c = "E" -> "e" [] c = "F" -> "f"
              [] c = "S" -> "s" [] c = "T" -> "t" [] c = "U" -> "u"
              [] c = "I" -> "i" [] c = "X" -> "x"
              [] OTHER -> c
    IN [i \in 1..Len(s) |-> LowerChar(s[i])]

Digits == <<"0", "1", "2", "3", "4", "5", "6", "7", "8", "9">>

IsDigit(c) == \E i \in 1..10 : Digits[i] = c

RECURSIVE ParseDigits(_)
ParseDigits(s) ==
    LET DigitVal(c) == (CHOOSE i \in 1..10 : Digits[i] = c) - 1
    IN IF s = <<>> THEN 0
       ELSE 10 * ParseDigits(SubSeq(s, 1, Len(s) - 1)) + DigitVal(s[Len(s)])

\* The exception int(v) raises, "none" when it returns.
IntError(v) ==
    CASE v.tag = "None" -> "TypeError"
      [] v.tag = "int" -> "none"
      [] v.tag = "str" ->
            IF v.s # <<>> /\ \A i \in 1..Len(v.s) : IsDigit(v.s[i])
            THEN "none" ELSE "ValueError"

\* int(v), where it returns
IntValue(v) == IF v.tag = "int" THEN v.n ELSE ParseDigits(v.s)

\* The exception v.lower() raises, "none" when it returns.
LowerError(v) == IF v.tag = "str" THEN "none" ELSE "AttributeError"

\* The first exception of a sequence of evaluation steps, "none" if none raises.
RECURSIVE FirstError(_)
FirstError(errs) ==
    IF errs = <<>> THEN "none"
    ELSE IF Head(errs) # "none" THEN Head(errs)
    ELSE FirstError(Tail(errs))

\* [f(x) for x in s]
MapSeq(f(_), s) == [i \in 1..Len(s) |-> f(s[i])]

\* [x for x in s if p(x)]
RECURSIVE Filter(_, _)
Filter(p(_), s) ==
    IF s = <<>> THEN <<>>
    ELSE IF p(Head(s)) THEN <<Head(s)>> \o Filter(p, Tail(s))
    ELSE Filter(p, Tail(s))

Range(s) == {s[i] : i \in 1..Len(s)}

----------------------------------------------------------------------------
(* Python numbers as exact rationals *)

Abs(n) == IF n < 0 THEN -n ELSE n

RECURSIVE GCD(_, _)
GCD(a, b) == IF b = 0 THEN a ELSE GCD(b, a % b)

\* n / d in lowest terms, d # 0
R(n, d) ==
    LET g == GCD(Abs(n), Abs(d))
        sgn == IF d < 0 THEN -1 ELSE 1
    IN [n |-> sgn * (n \div g), d |-> sgn * (d \div g)]

Num(n) == [n |-> n, d |-> 1]

RAdd(a, b) == R(a.n * b.d + b.n * a.d, a.d * b.d)
RDivInt(a, k) == R(a.n, a.d * k)
RLess(a, b) == a.n * b.d < b.n * a.d
RLeq(a, b) == a.n * b.d <= b.n * a.d

\* sum(values)
RECURSIVE RSum(_)
RSum(s) == IF s = <<>> THEN Num(0) ELSE RAdd(Head(s), RSum(Tail(s)))

\* np.mean(values): values non-empty
RMean(s) == RDivInt(RSum(s), Len(s))

----------------------------------------------------------------------------
(* features.py: helpers *)

WEI_PER_ETHER == 10

\* Mutant: the division by 1e18 is forgotten.
wei_to_ether_no_division(wei) == Num(IntValue(wei))

\* wei_to_ether(wei), where int(wei) returns
wei_to_ether(wei) == R(IntValue(wei), WEI_PER_ETHER)

\* sorted(ts) for a list of integers
RECURSIVE Insert(_, _)
Insert(x, s) ==
    IF s = <<>> THEN <<x>>
    ELSE IF x <= Head(s) THEN <<x>> \o s
    ELSE <<Head(s)>> \o Insert(x, Tail(s))

RECURSIVE Sorted(_)
Sorted(s) == IF s = <<>> THEN <<>> ELSE Insert(Head(s), Sorted(Tail(s)))

SECONDS_PER_MINUTE == 60

\* Mutant: the timestamps are not sorted before the gaps are taken.
compute_avg_time_between_unsorted(timestamps) ==
    IF Len(timestamps) < 2 THEN Num(0)
    ELSE LET diffs == [i \in 1..(Len(timestamps) - 1) |->
                         R(timestamps[i + 1] - timestamps[i], SECONDS_PER_MINUTE)]
         IN RMean(diffs)

compute_avg_time_between(timestamps) ==
    IF Len(timestamps) < 2 THEN Num(0)
    ELSE LET ts == Sorted(timestamps)
             diffs == [i \in 1..(Len(ts) - 1) |-> R(ts[i + 1] - ts[i], SECONDS_PER_MINUTE)]
         IN IF diffs # <<>> THEN RMean(diffs) ELSE Num(0)

----------------------------------------------------------------------------
(* features.py: the feature schema *)

FEATURE_COLUMNS == <<
    "Avg min between sent tnx",
    "Avg min between received tnx",
    "Time Diff between first and last (Mins)",
    "Sent tnx",
    "Received Tnx",
    "total transactions (including tnx to create contract",
    "Number of Created Contracts",
    "Unique Received From Addresses",
    "Unique Sent To Addresses",
    "min value received",
    "max value received ",
    "avg val received",
    "min val sent",
    "max val sent",
    "avg val sent",
    "total Ether sent",
    "total ether received",
    "total ether balance",
    "min value sent to contract",
    "max val sent to contract",
    "avg value sent to contract",
    "total ether sent contracts",
    " Total ERC20 tnxs",
    " ERC20 total Ether received",
    " ERC20 total ether sent",
    " ERC20 total Ether sent contract",
    " ERC20 uniq sent addr",
    " ERC20 uniq rec addr",
    " ERC20 uniq sent addr.1",
    " ERC20 uniq rec contract addr",
    " ERC20 avg time between sent tnx",
    " ERC20 avg time between rec tnx",
    " ERC20 avg time between rec 2 tnx",
    " ERC20 avg time between contract tnx",
    " ERC20 min val rec",
    " ERC20 max val rec",
    " ERC20 avg val rec",
    " ERC20 min val sent",
    " ERC20 max val sent",
    " ERC20 avg val sent",
    " ERC20 min val sent contract",
    " ERC20 max val sent contract",
    " ERC20 avg val sent contract",
    " ERC20 uniq sent token name",
    " ERC20 uniq rec token name",
    " ERC20 most sent token type",
    " ERC20_most_rec_token_type"
>>

NoneLabel == <<"N", "o", "n", "e">>

FEATURE_DEFAULTS ==
    ("Avg min between sent tnx" :> R(84426, 100))
    @@ ("Avg min between received tnx" :> R(491029, 100))
    @@ ("Time Diff between first and last (Mins)" :> R(17791847, 100))
    @@ ("Sent tnx" :> Num(10))
    @@ ("Received Tnx" :> Num(5))
    @@ ("total transactions (including tnx to create contract" :> Num(15))
    @@ ("Number of Created Contracts" :> Num(0))
    @@ ("Unique Received From Addresses" :> Num(3))
    @@ ("Unique Sent To Addresses" :> Num(5))
    @@ ("min value received" :> Num(0))
    @@ ("max value received " :> Num(1))
    @@ ("avg val received" :> R(10, 100))
    @@ ("min val sent" :> Num(0))
    @@ ("max val sent" :> R(50, 100))
    @@ ("avg val sent" :> R(10, 100))
    @@ ("total Ether sent" :> Num(1))
    @@ ("total ether received" :> Num(1))
    @@ ("total ether balance" :> R(10, 100))
    @@ ("min value sent to contract" :> Num(0))
    @@ ("max val sent to contract" :> Num(0))
    @@ ("avg value sent to contract" :> Num(0))
    @@ ("total ether sent contracts" :> Num(0))
    @@ (" Total ERC20 tnxs" :> Num(0))
    @@ (" ERC20 total Ether received" :> Num(0))
    @@ (" ERC20 total ether sent" :> Num(0))
    @@ (" ERC20 total Ether sent contract" :> Num(0))
    @@ (" ERC20 uniq sent addr" :> Num(0))
    @@ (" ERC20 uniq rec addr" :> Num(0))
    @@ (" ERC20 uniq sent addr.1" :> Num(0))
    @@ (" ERC20 uniq rec contract addr" :> Num(0))
    @@ (" ERC20 avg time between sent tnx" :> Num(0))
    @@ (" ERC20 avg time between rec tnx" :> Num(0))
    @@ (" ERC20 avg time between rec 2 tnx" :> Num(0))
    @@ (" ERC20 avg time between contract tnx" :> Num(0))
    @@ (" ERC20 min val rec" :> Num(0))
    @@ (" ERC20 max val rec" :> Num(0))
    @@ (" ERC20 avg val rec" :> Num(0))
    @@ (" ERC20 min val sent" :> Num(0))
    @@ (" ERC20 max val sent" :> Num(0))
    @@ (" ERC20 avg val sent" :> Num(0))
    @@ (" ERC20 min val sent contract" :> Num(0))
    @@ (" ERC20 max val sent contract" :> Num(0))
    @@ (" ERC20 avg val sent contract" :> Num(0))
    @@ (" ERC20 uniq sent token name" :> Num(0))
    @@ (" ERC20 uniq rec token name" :> Num(0))
    @@ (" ERC20 most sent token type" :> Str(NoneLabel))
    @@ (" ERC20_most_rec_token_type" :> Str(NoneLabel))


----------------------------------------------------------------------------
(* features.py: compute_features *)

\* The outcome of a call: an exception, or a return value.
Raise(e) == [raised |-> TRUE, exc |-> e, value |-> None]
Return(v) == [raised |-> FALSE, exc |-> "none", value |-> v]

EmptyStr == Str(<<>>)
NoPayload == Str(<<"0", "x">>)

\* features[k] = v for each <<k, v>> of assigns, in order
RECURSIVE Assign(_, _)
Assign(f, assigns) ==
    IF assigns = <<>> THEN f
    ELSE Assign((Head(assigns)[1] :> Head(assigns)[2]) @@ f, Tail(assigns))

\* `wei_to_ether(balance_wei) if balance_wei else 0.0`
BalanceError(balance_wei) ==
    IF Truthy(balance_wei) THEN IntError(balance_wei) ELSE "none"

BalanceEther(balance_wei) ==
    IF Truthy(balance_wei) THEN wei_to_ether(balance_wei) ELSE Num(0)

\* tx.get(key, "").lower(), where it returns
LowerOf(tx, key) == Lower(Get(tx, key, EmptyStr).s)

\* [int(tx["timeStamp"]) for tx in txs if tx.get("timeStamp")]
HasTimeStamp(tx) == Truthy(Get(tx, "timeStamp", None))
TimeStampError(tx) == IF HasTimeStamp(tx) THEN IntError(tx["timeStamp"]) ELSE "none"
TimeStamps(txs) ==
    LET TimeStampOf(tx) == IntValue(tx["timeStamp"])
    IN MapSeq(TimeStampOf, Filter(HasTimeStamp, txs))

\* [wei_to_ether(tx.get("value", 0)) for tx in txs]
ValueError(tx) == IntError(Get(tx, "value", IntV(0)))
ValueOf(tx) == wei_to_ether(Get(tx, "value", IntV(0)))

\* Mutant: records without a value are left out of the value list.
Values_skip_missing(txs) ==
    LET HasValue(tx) == tx["value"].tag # "absent"
    IN MapSeq(ValueOf, Filter(HasValue, txs))

Values(txs) == MapSeq(ValueOf, txs)

\* [int(tx.get("value", 0)) / 1e18 for tx in txs]
TokenValues(txs) ==
    LET TokenValueOf(tx) == R(IntValue(Get(tx, "value", IntV(0))), WEI_PER_ETHER)
    IN MapSeq(TokenValueOf, txs)

\* min, max, mean written under `if values:`
Stats3(values, kmin, kmax, kavg) ==
    LET RMin(s) == CHOOSE x \in Range(s) : \A y \in Range(s) : RLeq(x, y)
        RMax(s) == CHOOSE x \in Range(s) : \A y \in Range(s) : RLeq(y, x)
    IN IF values # <<>>
       THEN << <<kmin, RMin(values)>>, <<kmax, RMax(values)>>, <<kavg, RMean(values)>> >>
       ELSE <<>>

\* Mutant: an empty list writes zeros instead of leaving the defaults.
Stats4_zero_when_empty(values, kmin, kmax, kavg, ksum) ==
    IF values # <<>>
    THEN Stats3(values, kmin, kmax, kavg) \o << <<ksum, RSum(values)>> >>
    ELSE << <<kmin, Num(0)>>, <<kmax, Num(0)>>, <<kavg, Num(0)>>, <<ksum, Num(0)>> >>

\* Mutant: the sum is written outside the guard, 0 for an empty list.
Stats4_sum_always(values, kmin, kmax, kavg, ksum) ==
    Stats3(values, kmin, kmax, kavg) \o << <<ksum, RSum(values)>> >>

\* min, max, mean and sum written under `if values:`
Stats4(values, kmin, kmax, kavg, ksum) ==
    IF values # <<>>
    THEN Stats3(values, kmin, kmax, kavg) \o << <<ksum, RSum(values)>> >>
    ELSE <<>>

\* Counter(names).most_common(1)[0][0]: the most frequent, the first met on a tie
CountOf(x, s) == Cardinality({i \in 1..Len(s) : s[i] = x})
MostCommon(s) ==
    s[CHOOSE i \in 1..Len(s) :
        /\ \A j \in 1..Len(s) : CountOf(s[j], s) <= CountOf(s[i], s)
        /\ \A j \in 1..(i - 1) : CountOf(s[j], s) < CountOf(s[i], s)]

\* min(ts), max(ts) for a non-empty list of integers
IMin(ts) == CHOOSE x \in Range(ts) : \A y \in Range(ts) : x <= y
IMax(ts) == CHOOSE x \in Range(ts) : \A y \in Range(ts) : y <= x

\* [tx for tx in txs if tx.get("from", "").lower() == address]
SentTxs(address, txs) ==
    LET IsSent(tx) == LowerOf(tx, "from") = address
    IN Filter(IsSent, txs)

\* [tx for tx in txs if tx.get("to", "").lower() == address]
ReceivedTxs(address, txs) ==
    LET IsReceived(tx) == LowerOf(tx, "to") = address
    IN Filter(IsReceived, txs)

\* Mutant: both ends of a sent transaction are counted as counterparties.
UniqueSentTo_both_ends(sent_txs) ==
    {LowerOf(tx, "to") : tx \in Range(sent_txs)}
        \cup {LowerOf(tx, "from") : tx \in Range(sent_txs)}

\* {tx.get("to", "").lower() for tx in sent_txs if tx.get("to")}
UniqueSentTo(sent_txs) ==
    LET HasTo(tx) == Truthy(Get(tx, "to", None))
    IN {LowerOf(tx, "to") : tx \in Range(Filter(HasTo, sent_txs))}

\* {tx.get("from", "").lower() for tx in received_txs if tx.get("from")}
UniqueReceivedFrom(received_txs) ==
    LET HasFrom(tx) == Truthy(Get(tx, "from", None))
    IN {LowerOf(tx, "from") : tx \in Range(Filter(HasFrom, received_txs))}

\* Mutant: without timestamps the span is written as 0.
TimeDiffAssign_zero_when_empty(all_timestamps) ==
    << <<"Time Diff between first and last (Mins)",
         IF all_timestamps # <<>>
         THEN R(IMax(all_timestamps) - IMin(all_timestamps), SECONDS_PER_MINUTE)
         ELSE Num(0)>> >>

\* `if all_timestamps: features["Time Diff ..."] = (max - min) / 60`
TimeDiffAssign(all_timestamps) ==
    IF all_timestamps # <<>>
    THEN << <<"Time Diff between first and last (Mins)",
              R(IMax(all_timestamps) - IMin(all_timestamps), SECONDS_PER_MINUTE)>> >>
    ELSE <<>>

\* The native-currency part, lines 165-228, once the partition raised nothing.
EthErrors(address, eth_txs, balance_wei) ==
    LET sent_txs == SentTxs(address, eth_txs)
        received_txs == ReceivedTxs(address, eth_txs)
        CreationError(tx) ==
            IF Truthy(Get(tx, "contractAddress", None))
            THEN LowerError(Get(tx, "contractAddress", EmptyStr)) ELSE "none"
    IN FirstError(
           MapSeq(CreationError, eth_txs)
        \o MapSeq(TimeStampError, sent_txs)
        \o MapSeq(TimeStampError, received_txs)
        \o MapSeq(ValueError, sent_txs)
        \o MapSeq(ValueError, received_txs)
        \o <<BalanceError(balance_wei)>>)

ContractCreations(eth_txs) ==
    LET Creates(tx) == Truthy(Get(tx, "contractAddress", None))
    IN {LowerOf(tx, "contractAddress") : tx \in Range(Filter(Creates, eth_txs))}

EthAssigns(address, eth_txs, balance_wei) ==
    LET sent_txs == SentTxs(address, eth_txs)
        received_txs == ReceivedTxs(address, eth_txs)
        contract_creations == ContractCreations(eth_txs)
        IsContractTx(tx) ==
            \/ LowerOf(tx, "to") \in contract_creations
            \/ Get(tx, "input", NoPayload) # NoPayload
        contract_txs == Filter(IsContractTx, sent_txs)
        sent_timestamps == TimeStamps(sent_txs)
        received_timestamps == TimeStamps(received_txs)
        all_timestamps == sent_timestamps \o received_timestamps
        unique_sent_to == UniqueSentTo(sent_txs)
        unique_received_from == UniqueReceivedFrom(received_txs)
        sent_values == Values(sent_txs)
        received_values == Values(received_txs)
        contract_values == Values(contract_txs)
    IN << <<"Sent tnx", Num(Len(sent_txs))>>,
          <<"Received Tnx", Num(Len(received_txs))>>,
          <<"total transactions (including tnx to create contract", Num(Len(eth_txs))>>,
          <<"Number of Created Contracts", Num(Cardinality(contract_creations))>>,
          <<"Avg min between sent tnx", compute_avg_time_between(sent_timestamps)>>,
          <<"Avg min between received tnx",
            compute_avg_time_between(received_timestamps)>> >>
       \o TimeDiffAssign(all_timestamps)
       \o << <<"Unique Sent To Addresses", Num(Cardinality(unique_sent_to))>>,
             <<"Unique Received From Addresses",
               Num(Cardinality(unique_received_from))>> >>
       \o Stats4(received_values, "min value received", "max value received ",
                 "avg val received", "total ether received")
       \o Stats4(sent_values, "min val sent", "max val sent", "avg val sent",
                 "total Ether sent")
       \o << <<"total ether balance", BalanceEther(balance_wei)>> >>
       \o Stats4(contract_values, "min value sent to contract",
                 "max val sent to contract", "avg value sent to contract",
                 "total ether sent contracts")

\* The token part, lines 231-290, once the partition raised nothing.
TokenErrors(address, contract_creations, token_txs) ==
    LET IsContractToken(tx) == LowerOf(tx, "to") \in contract_creations
        sent_tokens == SentTxs(address, token_txs)
        received_tokens == ReceivedTxs(address, token_txs)
        contract_tokens == Filter(IsContractToken, sent_tokens)
    IN FirstError(
           MapSeq(ValueError, sent_tokens)
        \o MapSeq(ValueError, received_tokens)
        \o MapSeq(ValueError, contract_tokens)
        \o MapSeq(TimeStampError, sent_tokens)
        \o MapSeq(TimeStampError, received_tokens)
        \o MapSeq(TimeStampError, contract_tokens))

TokenAssigns(address, contract_creations, token_txs) ==
    LET IsContractToken(tx) == LowerOf(tx, "to") \in contract_creations
        sent_tokens == SentTxs(address, token_txs)
        received_tokens == ReceivedTxs(address, token_txs)
        contract_tokens == Filter(IsContractToken, sent_tokens)
        sent_token_values == TokenValues(sent_tokens)
        received_token_values == TokenValues(received_tokens)
        contract_token_values == TokenValues(contract_tokens)
        uniq_sent_addr == Num(Cardinality({LowerOf(tx, "to") : tx \in Range(sent_tokens)}))
        avg_rec == compute_avg_time_between(TimeStamps(received_tokens))
        SymbolOf(tx) == Get(tx, "tokenSymbol", Str(<<"U", "n", "k", "n", "o", "w", "n">>))
        sent_token_names == MapSeq(SymbolOf, sent_tokens)
        received_token_names == MapSeq(SymbolOf, received_tokens)
    IN << <<" Total ERC20 tnxs", Num(Len(token_txs))>>,
          <<" ERC20 total ether sent", RSum(sent_token_values)>>,
          <<" ERC20 total Ether received", RSum(received_token_values)>>,
          <<" ERC20 total Ether sent contract", RSum(contract_token_values)>>,
          <<" ERC20 uniq sent addr", uniq_sent_addr>>,
          <<" ERC20 uniq rec addr",
            Num(Cardinality({LowerOf(tx, "from") : tx \in Range(received_tokens)}))>>,
          <<" ERC20 uniq sent addr.1", uniq_sent_addr>>,
          <<" ERC20 uniq rec contract addr",
            Num(Cardinality({LowerOf(tx, "from") : tx \in Range(contract_tokens)}))>>,
          <<" ERC20 avg time between sent tnx",
            compute_avg_time_between(TimeStamps(sent_tokens))>>,
          <<" ERC20 avg time between rec tnx", avg_rec>>,
          <<" ERC20 avg time between rec 2 tnx", avg_rec>>,
          <<" ERC20 avg time between contract tnx",
            compute_avg_time_between(TimeStamps(contract_tokens))>> >>
       \o Stats3(received_token_values, " ERC20 min val rec", " ERC20 max val rec",
                 " ERC20 avg val rec")
       \o Stats3(sent_token_values, " ERC20 min val sent", " ERC20 max val sent",
                 " ERC20 avg val sent")
       \o Stats3(contract_token_values, " ERC20 min val sent contract",
                 " ERC20 max val sent contract", " ERC20 avg val sent contract")
       \o << <<" ERC20 uniq sent token name", Num(Cardinality(Range(sent_token_names)))>>,
             <<" ERC20 uniq rec token name",
               Num(Cardinality(Range(received_token_names)))>> >>
       \o (IF sent_token_names # <<>>
           THEN << <<" ERC20 most sent token type", MostCommon(sent_token_names)>> >>
           ELSE <<>>)
       \o (IF received_token_names # <<>>
           THEN << <<" ERC20_most_rec_token_type", MostCommon(received_token_names)>> >>
           ELSE <<>>)

\* The exception of the partition `tx.get("from", "").lower() == address` over txs,
\* then of `tx.get("to", "").lower() == address` over txs.
PartitionError(txs) ==
    LET FromError(tx) == LowerError(Get(tx, "from", EmptyStr))
        ToError(tx) == LowerError(Get(tx, "to", EmptyStr))
    IN FirstError(MapSeq(FromError, txs) \o MapSeq(ToError, txs))

compute_features(defaults, address_arg, eth_txs, token_txs, balance_wei) ==
    LET address == Lower(address_arg)
        features == defaults
    IN IF eth_txs = <<>> /\ token_txs = <<>>
       THEN IF BalanceError(balance_wei) # "none"
            THEN Raise(BalanceError(balance_wei))
            ELSE Return(Assign(features,
                     << <<"total ether balance", BalanceEther(balance_wei)>> >>))
       ELSE IF PartitionError(eth_txs) # "none"
       THEN Raise(PartitionError(eth_txs))
       ELSE IF EthErrors(address, eth_txs, balance_wei) # "none"
       THEN Raise(EthErrors(address, eth_txs, balance_wei))
       ELSE IF token_txs = <<>>
       THEN Return(Assign(features, EthAssigns(address, eth_txs, balance_wei)))
       ELSE IF PartitionError(token_txs) # "none"
       THEN Raise(PartitionError(token_txs))
       ELSE IF TokenErrors(address, ContractCreations(eth_txs), token_txs) # "none"
       THEN Raise(TokenErrors(address, ContractCreations(eth_txs), token_txs))
       ELSE Return(Assign(features,
                EthAssigns(address, eth_txs, balance_wei)
                \o TokenAssigns(address, ContractCreations(eth_txs), token_txs)))

----------------------------------------------------------------------------
(* model.py: FraudDetector *)

CAT_COLS == <<" ERC20 most sent token type", " ERC20_most_rec_token_type">>

\* FraudDetector.__init__ with _load_model and _load_preprocessors.
\* model_exists: the model file is there; preprocessors: None when the pickle is
\* missing, else its dict [scaler, label_encoders]; shap_available: SHAP_AVAILABLE.
FraudDetector(model_exists, preprocessors, shap_available) ==
    [model |-> model_exists,
     explainer |-> model_exists /\ shap_available,
     scaler |-> IF preprocessors = None THEN FALSE ELSE preprocessors.scaler,
     label_encoders |-> IF preprocessors = None THEN <<>> ELSE preprocessors.label_encoders,
     shap_available |-> shap_available]

\* str(val) of a categorical value
StrOf(v) == IF v.tag = "None" THEN NoneLabel ELSE v.s

HASH_MODULUS == 1000

\* hash(val) for a str: fixed within a process, seeded per process
RECURSIVE StrHash(_, _)
StrHash(seed, s) ==
    LET Alphabet == <<"N", "o", "n", "e", "U", "S", "D", "T", "A", "I", "k", "w">>
        CharCode(c) == CHOOSE i \in 1..Len(Alphabet) : Alphabet[i] = c
    IN IF s = <<>> THEN seed
       ELSE (StrHash(seed, SubSeq(s, 1, Len(s) - 1)) * 31 + CharCode(s[Len(s)])) % 1000003

\* LabelEncoder.transform([val])[0]: the index of val among the fitted classes
EncoderKnows(classes, val) == \E i \in 1..Len(classes) : classes[i] = val

EncodeCategory(d, seed, col, value) ==
    LET val == StrOf(value)
        EncoderTransform(classes, v) == (CHOOSE i \in 1..Len(classes) : classes[i] = v) - 1
    IN IF col \in DOMAIN d.label_encoders
       THEN IF EncoderKnows(d.label_encoders[col], val)
            THEN Num(EncoderTransform(d.label_encoders[col], val))
            ELSE Num(0)
       ELSE Num(StrHash(seed, val) % HASH_MODULUS)

\* the keys of a dict built from FEATURE_DEFAULTS.copy(), in insertion order
KeysOf(features) ==
    LET present(col) == col \in DOMAIN features IN Filter(present, FEATURE_COLUMNS)

\* pd.DataFrame([features]): one row, its columns in the dict's key order
DataFrame(keys, features) ==
    [i \in 1..Len(keys) |-> [col |-> keys[i], value |-> features[keys[i]]]]

\* Mutant: the columns are not selected, the frame keeps the dict's key order.
SelectColumns_key_order(df, columns) == Return(df)

\* df[columns]: the named columns, in the order of the names
SelectColumns(df, columns) ==
    IF \E i \in 1..Len(columns) : \A j \in 1..Len(df) : df[j].col # columns[i]
    THEN Raise("KeyError")
    ELSE Return([i \in 1..Len(columns) |->
            df[CHOOSE j \in 1..Len(df) : df[j].col = columns[i]]])

\* _preprocess on the frame of the dict: the row as the sequence of its cells
preprocess_frame(d, seed, frame) ==
    LET df == SelectColumns(frame, FEATURE_COLUMNS)
    IN IF df.raised
       THEN df
       ELSE Return([i \in 1..Len(df.value) |->
               LET col == df.value[i].col
               IN IF col \in Range(CAT_COLS)
                  THEN [col |-> col,
                        value |-> EncodeCategory(d, seed, col, df.value[i].value)]
                  ELSE [col |-> col, value |-> df.value[i].value, scaled |-> d.scaler]])

\* _preprocess of a dict in its insertion order
preprocess(d, seed, features) ==
    preprocess_frame(d, seed, DataFrame(KeysOf(features), features))

FRAUD_THRESHOLD == R(1, 2)
HIGH_UPPER == R(85, 100)
HIGH_LOWER == R(15, 100)
MEDIUM_UPPER == R(7, 10)
MEDIUM_LOWER == R(3, 10)
DUMMY_PROBABILITY == R(15, 100)

\* Mutant: the tier bounds are strict.
Confidence_strict(prob) ==
    IF RLess(HIGH_UPPER, prob) \/ RLess(prob, HIGH_LOWER) THEN "high"
    ELSE IF RLess(MEDIUM_UPPER, prob) \/ RLess(prob, MEDIUM_LOWER) THEN "medium"
    ELSE "low"

Confidence(prob) ==
    IF RLeq(HIGH_UPPER, prob) \/ RLeq(prob, HIGH_LOWER) THEN "high"
    ELSE IF RLeq(MEDIUM_UPPER, prob) \/ RLeq(prob, MEDIUM_LOWER) THEN "medium"
    ELSE "low"

\* Mutant: the confidence is not taken from the probability.
predict_with_model_low(d, seed, features, prob) ==
    IF preprocess(d, seed, features).raised
    THEN preprocess(d, seed, features)
    ELSE Return([is_fraud |-> RLeq(FRAUD_THRESHOLD, prob), fraud_probability |-> prob,
                 confidence |-> "low", model_loaded |-> TRUE])

\* predict from `df = self._preprocess(features)` on: prob is what
\* model.predict_proba(df)[0, 1] answers
predict_with_model(d, seed, features, prob) ==
    IF preprocess(d, seed, features).raised
    THEN preprocess(d, seed, features)
    ELSE Return([is_fraud |-> RLeq(FRAUD_THRESHOLD, prob), fraud_probability |-> prob,
                 confidence |-> Confidence(prob), model_loaded |-> TRUE])

\* Mutant: the `self.model is None` guard is missing.
predict_without_guard(d, seed, features, prob) ==
    predict_with_model(d, seed, features, prob)

predict(d, seed, features, prob) ==
    IF ~d.model
    THEN Return([is_fraud |-> FALSE, fraud_probability |-> DUMMY_PROBABILITY,
                 confidence |-> "low", model_loaded |-> FALSE])
    ELSE predict_with_model(d, seed, features, prob)

\* The calls predict makes on its way: _preprocess, then predict_proba
predict_calls(d, seed, features) ==
    IF ~d.model THEN [preprocess |-> 0, predict_proba |-> 0]
    ELSE IF preprocess(d, seed, features).raised
    THEN [preprocess |-> 1, predict_proba |-> 0]
    ELSE [preprocess |-> 1, predict_proba |-> 1]

----------------------------------------------------------------------------
(* model.py: explain *)

\* the integer nearest to x, the even one of two equally near
RoundHalfEven(x) ==
    LET q == x.n \div x.d
        r == x.n % x.d
    IN IF 2 * r < x.d THEN q
       ELSE IF 2 * r > x.d THEN q + 1
       ELSE IF q % 2 = 0 THEN q ELSE q + 1

\* f"{value:.<digits>f}": the decimal text, as a count of units of 10^-digits
FormatError(value) ==
    IF "n" \in DOMAIN value THEN "none"
    ELSE IF value.tag = "str" THEN "ValueError" ELSE "TypeError"
Format(value, digits) ==
    LET RECURSIVE Pow10(_)
        Pow10(k) == IF k = 0 THEN 1 ELSE 10 * Pow10(k - 1)
    IN [digits |-> digits, units |-> RoundHalfEven(R(value.n * Pow10(digits), value.d))]

\* float(value)
FloatError(value) ==
    IF "n" \in DOMAIN value THEN "none"
    ELSE IF value.tag # "str" THEN "TypeError"
    ELSE IF value.s # <<>> /\ \A i \in 1..Len(value.s) : IsDigit(value.s[i]) THEN "none"
    ELSE "ValueError"

\* feat.strip(): the name without its leading and trailing blanks
Strip(feat) ==
    CASE feat = "max value received " -> "max value received"
      [] feat = " Total ERC20 tnxs" -> "Total ERC20 tnxs"
      [] feat = " ERC20 total Ether received" -> "ERC20 total Ether received"
      [] feat = " ERC20 total ether sent" -> "ERC20 total ether sent"
      [] feat = " ERC20 total Ether sent contract" -> "ERC20 total Ether sent contract"
      [] feat = " ERC20 uniq sent addr" -> "ERC20 uniq sent addr"
      [] feat = " ERC20 uniq rec addr" -> "ERC20 uniq rec addr"
      [] feat = " ERC20 uniq sent addr.1" -> "ERC20 uniq sent addr.1"
      [] feat = " ERC20 uniq rec contract addr" -> "ERC20 uniq rec contract addr"
      [] feat = " ERC20 avg time between sent tnx" -> "ERC20 avg time between sent tnx"
      [] feat = " ERC20 avg time between rec tnx" -> "ERC20 avg time between rec tnx"
      [] feat = " ERC20 avg time between rec 2 tnx" -> "ERC20 avg time between rec 2 tnx"
      [] feat = " ERC20 avg time between contract tnx" -> "ERC20 avg time between contract tnx"
      [] feat = " ERC20 min val rec" -> "ERC20 min val rec"
      [] feat = " ERC20 max val rec" -> "ERC20 max val rec"
      [] feat = " ERC20 avg val rec" -> "ERC20 avg val rec"
      [] feat = " ERC20 min val sent" -> "ERC20 min val sent"
      [] feat = " ERC20 max val sent" -> "ERC20 max val sent"
      [] feat = " ERC20 avg val sent" -> "ERC20 avg val sent"
      [] feat = " ERC20 min val sent contract" -> "ERC20 min val sent contract"
      [] feat = " ERC20 max val sent contract" -> "ERC20 max val sent contract"
      [] feat = " ERC20 avg val sent contract" -> "ERC20 avg val sent contract"
      [] feat = " ERC20 uniq sent token name" -> "ERC20 uniq sent token name"
      [] feat = " ERC20 uniq rec token name" -> "ERC20 uniq rec token name"
      [] feat = " ERC20 most sent token type" -> "ERC20 most sent token type"
      [] feat = " ERC20_most_rec_token_type" -> "ERC20_most_rec_token_type"
      [] OTHER -> feat

\* The words _feature_to_reason looks for that occur in feat.lower()
Keywords(feat) ==
    CASE feat = "Avg min between sent tnx" ->
           {"tnx", "min between", "sent tnx"}
      [] feat = "Avg min between received tnx" ->
           {"tnx", "min between", "received"}
      [] feat = "Time Diff between first and last (Mins)" ->
           {"time", "diff"}
      [] feat = "Sent tnx" ->
           {"tnx", "sent tnx"}
      [] feat = "Received Tnx" ->
           {"tnx", "received"}
      [] feat = "total transactions (including tnx to create contract" ->
           {"total", "tnx", "contract"}
      [] feat = "Number of Created Contracts" ->
           {"contract"}
      [] feat = "Unique Received From Addresses" ->
           {"uniq", "received"}
      [] feat = "Unique Sent To Addresses" ->
           {"uniq"}
      [] feat = "min value received" ->
           {"val", "received"}
      [] feat = "max value received " ->
           {"val", "received"}
      [] feat = "avg val received" ->
           {"val", "received"}
      [] feat = "min val sent" ->
           {"val"}
      [] feat = "max val sent" ->
           {"val"}
      [] feat = "avg val sent" ->
           {"val"}
      [] feat = "total Ether sent" ->
           {"total", "ether"}
      [] feat = "total ether received" ->
           {"total", "ether", "received"}
      [] feat = "total ether balance" ->
           {"total", "ether", "balance"}
      [] feat = "min value sent to contract" ->
           {"val", "contract"}
      [] feat = "max val sent to contract" ->
           {"val", "contract"}
      [] feat = "avg value sent to contract" ->
           {"val", "contract"}
      [] feat = "total ether sent contracts" ->
           {"total", "ether", "contract"}
      [] feat = " Total ERC20 tnxs" ->
           {"erc20", "total", "tnx"}
      [] feat = " ERC20 total Ether received" ->
           {"erc20", "total", "ether", "received"}
      [] feat = " ERC20 total ether sent" ->
           {"erc20", "total", "ether"}
      [] feat = " ERC20 total Ether sent contract" ->
           {"erc20", "total", "ether", "contract"}
      [] feat = " ERC20 uniq sent addr" ->
           {"erc20", "uniq"}
      [] feat = " ERC20 uniq rec addr" ->
           {"erc20", "uniq"}
      [] feat = " ERC20 uniq sent addr.1" ->
           {"erc20", "uniq"}
      [] feat = " ERC20 uniq rec contract addr" ->
           {"erc20", "uniq", "contract"}
      [] feat = " ERC20 avg time between sent tnx" ->
           {"erc20", "tnx", "time", "sent tnx"}
      [] feat = " ERC20 avg time between rec tnx" ->
           {"erc20", "tnx", "time"}
      [] feat = " ERC20 avg time between rec 2 tnx" ->
           {"erc20", "tnx", "time"}
      [] feat = " ERC20 avg time between contract tnx" ->
           {"erc20", "tnx", "time", "contract"}
      [] feat = " ERC20 min val rec" ->
           {"erc20", "val"}
      [] feat = " ERC20 max val rec" ->
           {"erc20", "val"}
      [] feat = " ERC20 avg val rec" ->
           {"erc20", "val"}
      [] feat = " ERC20 min val sent" ->
           {"erc20", "val"}
      [] feat = " ERC20 max val sent" ->
           {"erc20", "val"}
      [] feat = " ERC20 avg val sent" ->
           {"erc20", "val"}
      [] feat = " ERC20 min val sent contract" ->
           {"erc20", "val", "contract"}
      [] feat = " ERC20 max val sent contract" ->
           {"erc20", "val", "contract"}
      [] feat = " ERC20 avg val sent contract" ->
           {"erc20", "val", "contract"}
      [] feat = " ERC20 uniq sent token name" ->
           {"erc20", "token", "uniq"}
      [] feat = " ERC20 uniq rec token name" ->
           {"erc20", "token", "uniq"}
      [] feat = " ERC20 most sent token type" ->
           {"erc20", "token", "type"}
      [] feat = " ERC20_most_rec_token_type" ->
           {"erc20", "token", "type"}
      [] OTHER -> {}

\* _feature_to_reason: the first matching rule, in the code's order
feature_to_reason(feat, value, shap_val) ==
    LET feat_lower == Keywords(feat)
        \* a templated sentence with its one slot; f"{value}" is str(value)
        Say(template, slot) == [template |-> template, slot |-> slot]
        FloatValue(v) == IF "n" \in DOMAIN v THEN v ELSE Num(ParseDigits(v.s))
    IN IF "erc20" \in feat_lower \/ "token" \in feat_lower
       THEN IF "uniq" \in feat_lower
            THEN Return(Say("Interacted with {} unique token addresses", [str |-> value]))
            ELSE IF "total" \in feat_lower /\ "tnx" \in feat_lower
            THEN Return(Say("Total of {} ERC-20 transactions", [str |-> value]))
            ELSE IF "type" \in feat_lower
            THEN Return(Say("Most common token type: {}", [str |-> value]))
            ELSE Return(Say("Unusual ERC-20 token activity pattern", None))
       ELSE IF "time" \in feat_lower \/ "diff" \in feat_lower \/ "min between" \in feat_lower
       THEN IF "diff" \in feat_lower
            THEN IF FloatError(value) # "none"
                 THEN Raise(FloatError(value))
                 ELSE LET mins == FloatValue(value)
                      IN IF RLess(mins, Num(60))
                         THEN Return(Say("Account active for only {} minutes",
                                         Format(mins, 0)))
                         ELSE IF RLess(mins, Num(1440))
                         THEN Return(Say("Account active for {} hours",
                                         Format(RDivInt(mins, 60), 1)))
                         ELSE Return(Say("Account active for {} days",
                                         Format(RDivInt(mins, 1440), 1)))
            ELSE IF FormatError(value) # "none"
                 THEN Raise(FormatError(value))
                 ELSE Return(Say("Average {} minutes between transactions",
                                 Format(value, 1)))
       ELSE IF "uniq" \in feat_lower
       THEN Return(Say("Interacted with {} unique addresses", [str |-> value]))
       ELSE IF "val" \in feat_lower \/ "ether" \in feat_lower \/ "balance" \in feat_lower
       THEN IF FormatError(value) # "none"
            THEN Raise(FormatError(value))
            ELSE Return(Say("Value metric: {} ETH", Format(value, 4)))
       ELSE IF "sent tnx" \in feat_lower
       THEN Return(Say("Sent {} transactions", [str |-> value]))
       ELSE IF "received" \in feat_lower /\ "tnx" \in feat_lower
       THEN Return(Say("Received {} transactions", [str |-> value]))
       ELSE IF "contract" \in feat_lower
       THEN Return(Say("Contract interaction: {}", [str |-> value]))
       ELSE Return(Say(Strip(feat), [str |-> value]))

\* Mutant: the slice ignores its bound.
SliceTo_whole(s, n) == s

\* s[:n] of a list, Series.head(n): the first n items, or all but the last -n when
\* n is negative
SliceTo(s, n) ==
    IF n >= 0
    THEN SubSeq(s, 1, IF n < Len(s) THEN n ELSE Len(s))
    ELSE SubSeq(s, 1, IF Len(s) + n > 0 THEN Len(s) + n ELSE 0)

IMPORTANT_FEATURES ==
    <<" ERC20_most_rec_token_type",
      " Total ERC20 tnxs",
      "Time Diff between first and last (Mins)",
      "Unique Received From Addresses",
      " ERC20 most sent token type",
      "avg val received",
      "Sent tnx",
      "Unique Sent To Addresses">>

\* the entries of an explanation, or the first exception building one raises
Explanations(entries) ==
    IF \E i \in 1..Len(entries) : entries[i].reason.raised
    THEN Raise(FirstError([i \in 1..Len(entries) |-> entries[i].reason.exc]))
    ELSE Return([i \in 1..Len(entries) |->
            [feature |-> entries[i].feature,
             impact |-> entries[i].impact,
             importance |-> entries[i].importance,
             value |-> entries[i].value,
             reason |-> entries[i].reason.value]])

\* Mutant: the fallback reports a direction.
fallback_explanation_decreases(defaults, features, top_n) ==
    LET feats == SliceTo(IMPORTANT_FEATURES, top_n)
    IN Return([i \in 1..Len(feats) |->
            [feature |-> Strip(feats[i]), impact |-> "decreases", importance |-> Num(0),
             value |-> Num(0), reason |-> None]])

\* _fallback_explanation; defaults is the module-level FEATURE_DEFAULTS
fallback_explanation(defaults, features, top_n) ==
    LET feats == SliceTo(IMPORTANT_FEATURES, top_n)
        raw_val(feat) ==
            IF feat \in DOMAIN features THEN features[feat]
            ELSE IF feat \in DOMAIN defaults THEN defaults[feat]
            ELSE Num(0)
    IN Explanations([i \in 1..Len(feats) |->
            [feature |-> Strip(feats[i]),
             impact |-> "unknown",
             importance |-> Num(0),
             value |-> raw_val(feats[i]),
             reason |-> feature_to_reason(feats[i], raw_val(feats[i]), Num(0))]])

\* pd.Series(np.abs(row), index=FEATURE_COLUMNS).sort_values(ascending=False).index,
\* as column positions; equal magnitudes keep their column order
RECURSIVE InsertByImportance(_, _, _)
InsertByImportance(i, ranked, row) ==
    IF ranked = <<>> THEN <<i>>
    ELSE IF RLess(R(Abs(row[Head(ranked)].n), row[Head(ranked)].d), R(Abs(row[i].n), row[i].d)) THEN <<i>> \o ranked
    ELSE <<Head(ranked)>> \o InsertByImportance(i, Tail(ranked), row)

RECURSIVE SortValues(_, _)
SortValues(k, row) ==
    IF k = 0 THEN <<>> ELSE InsertByImportance(k, SortValues(k - 1, row), row)

\* explain from `df = self._preprocess(features)` on: row is what
\* explainer.shap_values(df)[0] answers
explain_with_shap(d, seed, features, top_n, row) ==
    IF preprocess(d, seed, features).raised
    THEN preprocess(d, seed, features)
    ELSE LET index == SliceTo(SortValues(Len(FEATURE_COLUMNS), row), top_n)
             raw_val(feat) == IF feat \in DOMAIN features THEN features[feat] ELSE Num(0)
         IN Explanations([i \in 1..Len(index) |->
                LET feat == FEATURE_COLUMNS[index[i]]
                    shap_val == row[index[i]]
                IN [feature |-> Strip(feat),
                    impact |-> IF RLess(Num(0), shap_val) THEN "increases" ELSE "decreases",
                    importance |-> R(Abs(shap_val.n), shap_val.d),
                    value |-> raw_val(feat),
                    reason |-> feature_to_reason(feat, raw_val(feat), shap_val)]])

explain(d, seed, defaults, features, top_n, row) ==
    IF ~d.shap_available \/ ~d.explainer
    THEN fallback_explanation(defaults, features, top_n)
    ELSE explain_with_shap(d, seed, features, top_n, row)

----------------------------------------------------------------------------
(* Inputs *)

ADDR_A == <<"0", "x", "A">>
ADDR_a == <<"0", "x", "a">>
ADDR_b == <<"0", "x", "b">>
ADDR_c == <<"0", "x", "c">>

Tx(from, to, value, timeStamp, input, contractAddress, tokenSymbol) ==
    [from |-> from, to |-> to, value |-> value, timeStamp |-> timeStamp,
     input |-> input, contractAddress |-> contractAddress, tokenSymbol |-> tokenSymbol]

\* Native records: sent by 0xa, received by 0xa, self-transfer, contract creation,
\* and records with a null or unparseable field.
E_sent1 == Tx(Str(ADDR_A), Str(ADDR_b), Str(<<"1", "0">>), Str(<<"1", "0", "0">>),
              NoPayload, Absent, Absent)
E_sent2 == Tx(Str(ADDR_a), Str(<<"0", "x", "B">>), Str(<<"2", "0">>), Str(<<"2", "2", "0">>),
              Str(<<"0", "x", "d", "e">>), Absent, Absent)
E_sent3 == Tx(Str(ADDR_a), Str(ADDR_c), Str(<<"3", "0">>), Absent, None, None, Absent)
E_noValue == Tx(Str(ADDR_a), Str(ADDR_b), Absent, Str(<<"1", "6", "0">>),
                Absent, Absent, Absent)
E_recv1 == Tx(Str(ADDR_b), Str(ADDR_A), Str(<<"1", "0">>), Str(<<"1", "6", "0">>),
              NoPayload, Absent, Absent)
E_recv2 == Tx(Str(ADDR_c), Str(ADDR_a), Str(<<"5">>), EmptyStr, Absent, EmptyStr, Absent)
E_self == Tx(Str(ADDR_a), Str(ADDR_a), Str(<<"1", "0">>), Str(<<"1", "0", "0">>),
             NoPayload, Absent, Absent)
E_create == Tx(Str(ADDR_a), EmptyStr, Str(<<"0">>), Str(<<"4", "0">>),
               Str(<<"0", "x", "6", "0">>), Str(<<"0", "x", "C">>), Absent)
E_fromNone == Tx(None, Str(ADDR_a), Str(<<"1", "0">>), Str(<<"1", "0", "0">>),
                 NoPayload, Absent, Absent)
E_valueNone == Tx(Str(ADDR_b), Str(ADDR_a), None, Str(<<"1", "0", "0">>),
                  NoPayload, Absent, Absent)
E_timeBad == Tx(Str(ADDR_b), Str(ADDR_a), Str(<<"1", "0">>), Str(<<"1", "x">>),
                NoPayload, Absent, Absent)
E_empty == Tx(Absent, Absent, Absent, Absent, Absent, Absent, Absent)

EthRecords ==
    {E_sent1, E_sent2, E_sent3, E_noValue, E_recv1, E_recv2, E_self, E_create,
     E_fromNone, E_valueNone, E_timeBad, E_empty}

USDT == <<"U", "S", "D", "T">>
DAI == <<"D", "A", "I">>

T_sent1 == Tx(Str(ADDR_a), Str(ADDR_b), Str(<<"1", "0">>), Str(<<"1", "0", "0">>),
              Absent, Absent, Str(USDT))
T_sent2 == Tx(Str(ADDR_A), Str(ADDR_c), Str(<<"2", "0">>), Str(<<"2", "2", "0">>),
              Absent, Absent, Str(DAI))
T_recv1 == Tx(Str(ADDR_b), Str(ADDR_a), Absent, Absent, Absent, Absent, Absent)
T_recv2 == Tx(Str(ADDR_c), Str(ADDR_a), Str(<<"3", "0">>), Str(<<"1", "6", "0">>),
              Absent, Absent, None)
T_valueBad == Tx(Str(ADDR_a), Str(ADDR_b), Str(<<"a", "b", "c">>), Str(<<"1", "0", "0">>),
                 Absent, Absent, Str(USDT))

TokenRecords == {T_sent1, T_sent2, T_recv1, T_recv2, T_valueBad}

Addresses == {ADDR_A, ADDR_b}
Balances == {EmptyStr, Str(<<"2", "5">>)}

SeqsUpTo(S, n) == UNION {[1..k -> S] : k \in 0..n}

TimeStampValues == {40, 100, 160, 220}

SampleFeatures ==
    {compute_features(FEATURE_DEFAULTS, ADDR_A, e, t, Str(<<"2", "5">>)).value :
        e \in {<<>>, <<E_sent1, E_recv1>>}, t \in {<<>>, <<T_sent1, T_recv2>>}}

Encoders == (CAT_COLS[1] :> <<DAI, NoneLabel>>) @@ (CAT_COLS[2] :> <<DAI, NoneLabel>>)

Preprocessors ==
    {None,
     [scaler |-> TRUE, label_encoders |-> <<>>],
     [scaler |-> TRUE, label_encoders |-> Encoders],
     [scaler |-> FALSE, label_encoders |-> (CAT_COLS[1] :> <<DAI, NoneLabel>>)]}

Detectors ==
    {FraudDetector(m, p, s) : m \in BOOLEAN, p \in Preprocessors, s \in BOOLEAN}

HashSeeds == {0, 7}

Probabilities == {R(k, ProbSteps) : k \in 0..ProbSteps}

\* feature vectors, and a mapping that lacks most of the columns
ExplainFeatures ==
    SampleFeatures \cup {("Sent tnx" :> Num(4)) @@ ("avg val received" :> R(5, 2))}

\* requested counts: around zero, and around the number of columns
TopNs ==
    (-MaxTopN..MaxTopN)
    \cup {-Len(FEATURE_COLUMNS) - 1, -Len(FEATURE_COLUMNS),
          Len(FEATURE_COLUMNS), Len(FEATURE_COLUMNS) + 1}

\* rows of per-column contributions, no two of equal magnitude
ShapRows ==
    {[i \in 1..Len(FEATURE_COLUMNS) |-> R((IF i % 2 = 0 THEN 1 ELSE -1) * i, 100)],
     [i \in 1..Len(FEATURE_COLUMNS) |->
         R((IF i % 3 = 0 THEN -1 ELSE 1) * ((i * 7) % Len(FEATURE_COLUMNS)), 10)]}

\* key orders a mapping with these entries can arrive in
KeyOrders(features) ==
    LET Reverse(s) == [i \in 1..Len(s) |-> s[Len(s) + 1 - i]]
        Rotate(s) == IF s = <<>> THEN s ELSE Tail(s) \o <<Head(s)>>
    IN {KeysOf(features), Reverse(KeysOf(features)), Rotate(KeysOf(features))}

----------------------------------------------------------------------------
(* The state machine: one call of one function per behaviour *)

NoResult == [raised |-> FALSE, exc |-> "none", value |-> None]
NoCalls == [preprocess |-> 0, predict_proba |-> 0]
NoDetector == FraudDetector(FALSE, None, FALSE)

\* no SSE client, no publisher
NoSse ==
    /\ sse_clients = <<>>
    /\ sse_clients_lock = "free"
    /\ queues = <<>>
    /\ publisher = <<>>
    /\ stream = <<>>
    /\ sse_log = [published |-> 0, registered_at |-> <<>>, dropped_at |-> <<>>,
                  removals |-> <<>>, raised |-> FALSE]

\* no single call is under way
NoCall ==
    /\ pc = "none"
    /\ op = "none"
    /\ args = None
    /\ result = NoResult
    /\ detector = NoDetector
    /\ hash_seed = 0
    /\ oracle = Num(0)
    /\ calls = NoCalls

InitCommon ==
    /\ pc = "start"
    /\ result = NoResult
    /\ feature_defaults = FEATURE_DEFAULTS
    /\ calls = NoCalls
    /\ threads = <<>>
    /\ NoSse

InitComputeFeatures ==
    /\ op = "compute_features"
    /\ \E a \in Addresses, b \in Balances, e \in SeqsUpTo(EthRecords, MaxTxs) :
         \E t \in SeqsUpTo(TokenRecords, MaxTxs - Len(e)) :
            args = [address |-> a, eth_txs |-> e, token_txs |-> t, balance_wei |-> b]
    /\ detector = NoDetector
    /\ hash_seed = 0
    /\ oracle = Num(0)

InitComputeAvgTimeBetween ==
    /\ op = "compute_avg_time_between"
    /\ \E ts \in SeqsUpTo(TimeStampValues, MaxTs) : args = [timestamps |-> ts]
    /\ detector = NoDetector
    /\ hash_seed = 0
    /\ oracle = Num(0)

InitPredict ==
    /\ op = "predict"
    /\ \E f \in SampleFeatures : args = [features |-> f]
    /\ detector \in Detectors
    /\ hash_seed \in HashSeeds
    /\ oracle \in Probabilities

InitPreprocess ==
    /\ op = "preprocess"
    /\ \E f \in ExplainFeatures : \E k \in KeyOrders(f) : args = [features |-> f, keys |-> k]
    /\ detector \in Detectors
    /\ hash_seed \in HashSeeds
    /\ oracle = Num(0)

InitExplain ==
    /\ op = "explain"
    /\ \E f \in ExplainFeatures, n \in TopNs : args = [features |-> f, top_n |-> n]
    /\ detector \in Detectors
    /\ hash_seed = 0
    /\ \E row \in ShapRows : oracle = [shap_values |-> row]

Init ==
    /\ InitCommon
    /\ \/ InitComputeFeatures
       \/ InitComputeAvgTimeBetween
       \/ InitPredict
       \/ InitPreprocess
       \/ InitExplain

ComputeFeatures ==
    /\ pc = "start"
    /\ op = "compute_features"
    /\ result' = compute_features(feature_defaults, args.address, args.eth_txs,
                                  args.token_txs, args.balance_wei)
    /\ pc' = "done"
    /\ UNCHANGED <<op, args, feature_defaults, detector, hash_seed, oracle, calls>>
    /\ UNCHANGED <<threads, sse_vars>>

ComputeAvgTimeBetween ==
    /\ pc = "start"
    /\ op = "compute_avg_time_between"
    /\ result' = Return(compute_avg_time_between(args.timestamps))
    /\ pc' = "done"
    /\ UNCHANGED <<op, args, feature_defaults, detector, hash_seed, oracle, calls>>
    /\ UNCHANGED <<threads, sse_vars>>

Predict ==
    /\ pc = "start"
    /\ op = "predict"
    /\ result' = predict(detector, hash_seed, args.features, oracle)
    /\ calls' = predict_calls(detector, hash_seed, args.features)
    /\ pc' = "done"
    /\ UNCHANGED <<op, args, feature_defaults, detector, hash_seed, oracle>>
    /\ UNCHANGED <<threads, sse_vars>>

Preprocess ==
    /\ pc = "start"
    /\ op = "preprocess"
    /\ result' = preprocess_frame(detector, hash_seed, DataFrame(args.keys, args.features))
    /\ pc' = "done"
    /\ UNCHANGED <<op, args, feature_defaults, detector, hash_seed, oracle, calls>>
    /\ UNCHANGED <<threads, sse_vars>>

Explain ==
    /\ pc = "start"
    /\ op = "explain"
    /\ result' = explain(detector, hash_seed, feature_defaults, args.features,
                         args.top_n, oracle.shap_values)
    /\ pc' = "done"
    /\ UNCHANGED <<op, args, feature_defaults, detector, hash_seed, oracle, calls>>
    /\ UNCHANGED <<threads, sse_vars>>

Next ==
    \/ ComputeFeatures
    \/ ComputeAvgTimeBetween
    \/ Predict
    \/ Preprocess
    \/ Explain

Spec == Init /\ [][Next]_vars

----------------------------------------------------------------------------
(* Concurrent compute_features calls: request threads of the Flask server *)

Threads == 1..MaxThreads

\* the arguments the concurrent calls are made with
ConcurrentArgs ==
    {[address |-> ADDR_A, eth_txs |-> <<>>, token_txs |-> <<>>,
      balance_wei |-> Str(<<"2", "5">>)],
     [address |-> ADDR_A, eth_txs |-> <<E_sent1, E_recv1>>, token_txs |-> <<>>,
      balance_wei |-> EmptyStr],
     [address |-> ADDR_b, eth_txs |-> <<E_sent1>>, token_txs |-> <<T_sent1, T_recv2>>,
      balance_wei |-> Str(<<"2", "5">>)],
     [address |-> ADDR_A, eth_txs |-> <<>>, token_txs |-> <<T_recv1>>,
      balance_wei |-> EmptyStr],
     [address |-> ADDR_A, eth_txs |-> <<E_fromNone>>, token_txs |-> <<>>,
      balance_wei |-> EmptyStr]}

IdleThread == [pc |-> "idle", args |-> None, features |-> None, result |-> NoResult]

\* Mutant: no copy is made, the name is bound to the shared dict itself.
DictCopy_alias(d) == [shared |-> TRUE, map |-> d]

\* d.copy(): a new dict object with the entries of d
DictCopy(d) == [shared |-> FALSE, map |-> d]

\* the entries of the dict a thread's `features` names
Deref(ref, shared) == IF ref.shared THEN shared ELSE ref.map

\* features[k] = v for each <<k, v>> of assigns: what becomes of the thread's own
\* dict and of the module-level dict
StoreOwn(ref, assigns) ==
    IF ref.shared THEN ref ELSE [ref EXCEPT !.map = Assign(ref.map, assigns)]
StoreShared(ref, shared, assigns) ==
    IF ref.shared THEN Assign(shared, assigns) ELSE shared

InitConcurrent ==
    /\ NoCall
    /\ NoSse
    /\ feature_defaults = FEATURE_DEFAULTS
    /\ threads = [t \in Threads |-> IdleThread]

\* a request thread enters compute_features
Call(t) ==
    /\ threads[t].pc \in {"idle", "done"}
    /\ \E a \in ConcurrentArgs :
          threads' = [threads EXCEPT ![t] = [IdleThread EXCEPT !.pc = "start", !.args = a]]
    /\ UNCHANGED <<feature_defaults, call_vars, sse_vars>>

\* features = FEATURE_DEFAULTS.copy()
Copy(t) ==
    /\ threads[t].pc = "start"
    /\ threads' = [threads EXCEPT ![t].pc = "copied",
                                  ![t].features = DictCopy(feature_defaults)]
    /\ UNCHANGED <<feature_defaults, call_vars, sse_vars>>

\* the early return for an account without transactions
EmptyReturn(t) ==
    LET a == threads[t].args
        ref == threads[t].features
        assigns == << <<"total ether balance", BalanceEther(a.balance_wei)>> >>
    IN /\ threads[t].pc = "copied"
       /\ a.eth_txs = <<>> /\ a.token_txs = <<>>
       /\ IF BalanceError(a.balance_wei) # "none"
          THEN /\ threads' = [threads EXCEPT ![t].pc = "done",
                                 ![t].result = Raise(BalanceError(a.balance_wei))]
               /\ UNCHANGED feature_defaults
          ELSE /\ feature_defaults' = StoreShared(ref, feature_defaults, assigns)
               /\ threads' = [threads EXCEPT ![t].pc = "done",
                                 ![t].features = StoreOwn(ref, assigns),
                                 ![t].result =
                                     Return(Deref(StoreOwn(ref, assigns),
                                                  StoreShared(ref, feature_defaults,
                                                              assigns)))]
       /\ UNCHANGED <<call_vars, sse_vars>>

\* the native-transaction part of compute_features
EthBlock(t) ==
    LET a == threads[t].args
        ref == threads[t].features
        address == Lower(a.address)
        error == IF PartitionError(a.eth_txs) # "none"
                 THEN PartitionError(a.eth_txs)
                 ELSE EthErrors(address, a.eth_txs, a.balance_wei)
        assigns == EthAssigns(address, a.eth_txs, a.balance_wei)
    IN /\ threads[t].pc = "copied"
       /\ ~(a.eth_txs = <<>> /\ a.token_txs = <<>>)
       /\ IF error # "none"
          THEN /\ threads' = [threads EXCEPT ![t].pc = "done", ![t].result = Raise(error)]
               /\ UNCHANGED feature_defaults
          ELSE /\ feature_defaults' = StoreShared(ref, feature_defaults, assigns)
               /\ threads' = [threads EXCEPT ![t].pc = "eth_done",
                                 ![t].features = StoreOwn(ref, assigns)]
       /\ UNCHANGED <<call_vars, sse_vars>>

\* the token-transfer part of compute_features, `if token_txs:`
TokenBlock(t) ==
    LET a == threads[t].args
        ref == threads[t].features
        address == Lower(a.address)
        creations == ContractCreations(a.eth_txs)
        error == IF PartitionError(a.token_txs) # "none"
                 THEN PartitionError(a.token_txs)
                 ELSE TokenErrors(address, creations, a.token_txs)
        assigns == TokenAssigns(address, creations, a.token_txs)
    IN /\ threads[t].pc = "eth_done"
       /\ a.token_txs # <<>>
       /\ IF error # "none"
          THEN /\ threads' = [threads EXCEPT ![t].pc = "done", ![t].result = Raise(error)]
               /\ UNCHANGED feature_defaults
          ELSE /\ feature_defaults' = StoreShared(ref, feature_defaults, assigns)
               /\ threads' = [threads EXCEPT ![t].pc = "token_done",
                                 ![t].features = StoreOwn(ref, assigns)]
       /\ UNCHANGED <<call_vars, sse_vars>>

\* return features
ReturnFeatures(t) ==
    /\ \/ threads[t].pc = "eth_done" /\ threads[t].args.token_txs = <<>>
       \/ threads[t].pc = "token_done"
    /\ threads' = [threads EXCEPT ![t].pc = "done",
                      ![t].result = Return(Deref(threads[t].features, feature_defaults))]
    /\ UNCHANGED <<feature_defaults, call_vars, sse_vars>>

NextConcurrent ==
    \E t \in Threads :
        \/ Call(t)
        \/ Copy(t)
        \/ EmptyReturn(t)
        \/ EthBlock(t)
        \/ TokenBlock(t)
        \/ ReturnFeatures(t)

SpecConcurrent == InitConcurrent /\ [][NextConcurrent]_vars

----------------------------------------------------------------------------
(* main.py: server-sent events *)

Clients == 1..MaxClients
Publishers == {"analyze", "review"}

\* Queue.put_nowait(payload) on a queue of maxsize MaxQueue
put_nowait(q, payload) ==
    IF Len(q) >= MaxQueue THEN Raise("Full") ELSE Return(Append(q, payload))

\* list.remove(x): the first x is taken out; ValueError when there is none
RECURSIVE ListRemove(_, _)
ListRemove(list, x) ==
    IF list = <<>> THEN Raise("ValueError")
    ELSE IF Head(list) = x THEN Return(Tail(list))
    ELSE LET rest == ListRemove(Tail(list), x)
         IN IF rest.raised THEN rest ELSE Return(<<Head(list)>> \o rest.value)

\* Mutant: the queues that were full stay registered.
RemoveDead_keep(list, dead) == Return(list)

\* for q in dead: sse_clients.remove(q)
RECURSIVE RemoveDead(_, _)
RemoveDead(list, dead) ==
    IF dead = <<>> THEN Return(list)
    ELSE IF ListRemove(list, Head(dead)).raised THEN ListRemove(list, Head(dead))
    ELSE RemoveDead(ListRemove(list, Head(dead)).value, Tail(dead))

\* how often x is in the list
CountIn(list, x) == Cardinality({i \in 1..Len(list) : list[i] = x})

IdlePublisher == [pc |-> "idle", payload |-> 0, index |-> 0, dead |-> <<>>]

InitSse ==
    /\ NoCall
    /\ threads = <<>>
    /\ feature_defaults = FEATURE_DEFAULTS
    /\ sse_clients = <<>>
    /\ sse_clients_lock = "free"
    /\ queues = [c \in Clients |-> <<>>]
    /\ publisher = [p \in Publishers |-> IdlePublisher]
    /\ stream = [c \in Clients |-> [pc |-> "new", received |-> <<>>]]
    /\ sse_log = [published |-> 0,
                  registered_at |-> [c \in Clients |-> 0],
                  dropped_at |-> [c \in Clients |-> 0],
                  removals |-> [c \in Clients |-> 0],
                  raised |-> FALSE]

\* events(): a new queue is appended to sse_clients under the lock
Events(c) ==
    /\ stream[c].pc = "new"
    /\ sse_clients_lock = "free"
    /\ sse_clients' = Append(sse_clients, c)
    /\ stream' = [stream EXCEPT ![c].pc = "open"]
    /\ sse_log' = [sse_log EXCEPT !.registered_at[c] = sse_log.published]
    /\ UNCHANGED <<sse_clients_lock, queues, publisher>>
    /\ UNCHANGED <<call_vars, feature_defaults, threads>>

\* sse_stream: client_queue.get() hands the next payload to the client
StreamGet(c) ==
    /\ stream[c].pc = "open"
    /\ queues[c] # <<>>
    /\ stream' = [stream EXCEPT ![c].received = Append(@, Head(queues[c]))]
    /\ queues' = [queues EXCEPT ![c] = Tail(@)]
    /\ UNCHANGED <<sse_clients, sse_clients_lock, publisher, sse_log>>
    /\ UNCHANGED <<call_vars, feature_defaults, threads>>

\* sse_stream: the client goes away; the finally block runs under the lock
StreamClose(c) ==
    /\ stream[c].pc = "open"
    /\ sse_clients_lock = "free"
    /\ IF c \in Range(sse_clients)
       THEN /\ sse_clients' = ListRemove(sse_clients, c).value
            /\ sse_log' = [sse_log EXCEPT !.removals[c] = @ + 1]
       ELSE UNCHANGED <<sse_clients, sse_log>>
    /\ stream' = [stream EXCEPT ![c].pc = "closed"]
    /\ UNCHANGED <<sse_clients_lock, queues, publisher>>
    /\ UNCHANGED <<call_vars, feature_defaults, threads>>

\* sse_publish is called: the payload is built, the thread waits for the lock
SsePublish(p) ==
    /\ publisher[p].pc = "idle"
    /\ sse_log.published + Cardinality({q \in Publishers : publisher[q].pc = "waiting"})
          < MaxEvents
    /\ publisher' = [publisher EXCEPT ![p].pc = "waiting"]
    /\ UNCHANGED <<sse_clients, sse_clients_lock, queues, stream, sse_log>>
    /\ UNCHANGED <<call_vars, feature_defaults, threads>>

\* `with sse_clients_lock:` is entered; events are numbered in this order
Acquire(p) ==
    /\ publisher[p].pc = "waiting"
    /\ sse_clients_lock = "free"
    /\ sse_clients_lock' = p
    /\ publisher' = [publisher EXCEPT ![p] = [pc |-> "putting",
                                             payload |-> sse_log.published + 1,
                                             index |-> 1, dead |-> <<>>]]
    /\ sse_log' = [sse_log EXCEPT !.published = @ + 1]
    /\ UNCHANGED <<sse_clients, queues, stream>>
    /\ UNCHANGED <<call_vars, feature_defaults, threads>>

\* one round of `for q in sse_clients:`
PutNowait(p) ==
    LET c == sse_clients[publisher[p].index]
        put == put_nowait(queues[c], publisher[p].payload)
    IN /\ publisher[p].pc = "putting"
       /\ publisher[p].index <= Len(sse_clients)
       /\ IF put.raised
          THEN /\ publisher' = [publisher EXCEPT ![p].index = @ + 1,
                                                 ![p].dead = Append(@, c)]
               /\ sse_log' = [sse_log EXCEPT !.dropped_at[c] = publisher[p].payload]
               /\ UNCHANGED queues
          ELSE /\ publisher' = [publisher EXCEPT ![p].index = @ + 1]
               /\ queues' = [queues EXCEPT ![c] = put.value]
               /\ UNCHANGED sse_log
       /\ UNCHANGED <<sse_clients, sse_clients_lock, stream>>
       /\ UNCHANGED <<call_vars, feature_defaults, threads>>

\* the dead queues are removed and the lock is released
Finish(p) ==
    LET removed == RemoveDead(sse_clients, publisher[p].dead)
    IN /\ publisher[p].pc = "putting"
       /\ publisher[p].index > Len(sse_clients)
       /\ IF removed.raised
          THEN /\ sse_log' = [sse_log EXCEPT !.raised = TRUE]
               /\ UNCHANGED sse_clients
          ELSE /\ sse_clients' = removed.value
               /\ sse_log' = [sse_log EXCEPT !.removals =
                     [c \in Clients |->
                         @[c] + CountIn(sse_clients, c) - CountIn(removed.value, c)]]
       /\ sse_clients_lock' = "free"
       /\ publisher' = [publisher EXCEPT ![p] = IdlePublisher]
       /\ UNCHANGED <<queues, stream>>
       /\ UNCHANGED <<call_vars, feature_defaults, threads>>

NextSse ==
    \/ \E c \in Clients :
          \/ Events(c)
          \/ StreamGet(c)
          \/ StreamClose(c)
    \/ \E p \in Publishers :
          \/ SsePublish(p)
          \/ Acquire(p)
          \/ PutNowait(p)
          \/ Finish(p)

SpecSse == InitSse /\ [][NextSse]_vars

----------------------------------------------------------------------------
(* Claims *)

CF_Done == pc = "done" /\ op = "compute_features"
CF_Returned == CF_Done /\ ~result.raised
CF_Empty == args.eth_txs = <<>> /\ args.token_txs = <<>>
AT_Done == pc = "done" /\ op = "compute_avg_time_between"
PR_Done == pc = "done" /\ op = "predict"

\* What the claims say of the input, stated on the records themselves.
AddrOf(v) == IF v.tag = "str" THEN Lower(v.s) ELSE <<>>
ExpSent == SelectSeq(args.eth_txs, LAMBDA tx : AddrOf(tx["from"]) = Lower(args.address))
ExpReceived == SelectSeq(args.eth_txs, LAMBDA tx : AddrOf(tx["to"]) = Lower(args.address))
ExpCreations ==
    {AddrOf(tx["contractAddress"]) :
        tx \in {x \in Range(args.eth_txs) : AddrOf(x["contractAddress"]) # <<>>}}
ExpContract ==
    SelectSeq(ExpSent, LAMBDA tx :
        \/ AddrOf(tx["to"]) \in ExpCreations
        \/ tx["input"].tag = "None"
        \/ tx["input"].tag = "str" /\ tx["input"].s # <<"0", "x">>)
ExpUnits(tx) == IF tx["value"].tag = "str" THEN ParseDigits(tx["value"].s) ELSE 0
ExpEther(tx) == R(ExpUnits(tx), 10)
ExpEthers(txs) == [i \in 1..Len(txs) |-> ExpEther(txs[i])]
ExpTimes(txs) ==
    {ParseDigits(tx["timeStamp"].s) :
        tx \in {x \in Range(txs) : x["timeStamp"].tag = "str" /\ x["timeStamp"].s # <<>>}}
REq(x, n, d) == x.n * d = n * x.d
IsMinOf(x, vals) == x \in Range(vals) /\ \A y \in Range(vals) : x.n * y.d <= y.n * x.d
IsMaxOf(x, vals) == x \in Range(vals) /\ \A y \in Range(vals) : y.n * x.d <= x.n * y.d
IsMeanOf(x, vals) == LET t == RSum(vals) IN x.n * t.d * Len(vals) = t.n * x.d
Feature(k) == result.value[k]

\* C1: with both transaction lists empty, compute_features returns FEATURE_DEFAULTS
\* with only "total ether balance" changed, to the supplied balance divided by
\* 10^18 (25 units of 10^17 wei give 2.5), for every address and balance.
C1_EmptyInputGivesDefaults ==
    (CF_Done /\ CF_Empty) =>
        /\ ~result.raised
        /\ DOMAIN result.value = DOMAIN FEATURE_DEFAULTS
        /\ \A k \in DOMAIN FEATURE_DEFAULTS \ {"total ether balance"} :
              Feature(k) = FEATURE_DEFAULTS[k]
        /\ REq(Feature("total ether balance"),
               IF args.balance_wei.s = <<>> THEN 0 ELSE ParseDigits(args.balance_wei.s), 10)

C1_Witness ==
    /\ CF_Done /\ CF_Empty
    /\ args.address = ADDR_A
    /\ args.balance_wei = Str(<<"2", "5">>)
    /\ Feature("total ether balance") = [n |-> 5, d |-> 2]
    /\ Feature("Sent tnx") = Num(10)

\* C2 (as claimed): compute_features never raises for records with absent, null or
\* unparseable fields; it returns a feature vector.
C2_NeverRaises == CF_Done => ~result.raised

\* C3 (as claimed): in a sent set where one record lacks value and the others have
\* positive values, "min val sent" is the minimum of the present values, not 0.
C3_OneMissingOthersPositive ==
    /\ CF_Returned
    /\ Cardinality({i \in 1..Len(ExpSent) : ExpSent[i]["value"].tag = "absent"}) = 1
    /\ Len(ExpSent) >= 2
    /\ \A i \in 1..Len(ExpSent) :
          ExpSent[i]["value"].tag # "absent" => ExpUnits(ExpSent[i]) > 0

C3_MissingValueExcluded ==
    C3_OneMissingOthersPositive =>
        IsMinOf(Feature("min val sent"),
                ExpEthers(SelectSeq(ExpSent, LAMBDA tx : tx["value"].tag # "absent")))

\* C3 (amended): a sent record without a value enters the value list as 0: "min val
\* sent" is 0, "avg val sent" divides by the number of all sent records, and the
\* record adds nothing to "total Ether sent".
C3_MissingValueCountsAsZero ==
    (CF_Returned /\ \E i \in 1..Len(ExpSent) : ExpSent[i]["value"].tag = "absent") =>
        /\ Feature("min val sent") = Num(0)
        /\ Feature("total Ether sent") = RSum(ExpEthers(ExpSent))
        /\ LET t == Feature("total Ether sent")
               a == Feature("avg val sent")
           IN a.n * t.d * Len(ExpSent) = t.n * a.d

C3_Witness ==
    /\ C3_OneMissingOthersPositive
    /\ args.eth_txs = <<E_sent1, E_noValue>>
    /\ Feature("min val sent") = Num(0)
    /\ Feature("avg val sent") = [n |-> 1, d |-> 2]

\* C4 (as claimed): whenever a record exists, "total Ether sent" and "total ether
\* received" are the sums of the converted values of the sent and received sets,
\* 0 for an empty set.
C4_SumsAlwaysWritten ==
    (CF_Returned /\ ~CF_Empty) =>
        /\ Feature("total Ether sent") = RSum(ExpEthers(ExpSent))
        /\ Feature("total ether received") = RSum(ExpEthers(ExpReceived))

\* C4 (amended): whenever a record exists, "total Ether sent" and "total ether
\* received" are the sums of the converted values of the sent and received sets when
\* that set is non-empty, and keep their default 1.0 when it is empty; the balance
\* is always computed.
C4_SumOf(txs, ksum) ==
    IF txs = <<>>
    THEN Feature(ksum) = FEATURE_DEFAULTS[ksum] /\ REq(Feature(ksum), 1, 1)
    ELSE Feature(ksum) = RSum(ExpEthers(txs))

C4_SumsOnlyWhenNonEmpty ==
    (CF_Returned /\ ~CF_Empty) =>
        /\ C4_SumOf(ExpSent, "total Ether sent")
        /\ C4_SumOf(ExpReceived, "total ether received")
        /\ REq(Feature("total ether balance"),
               IF args.balance_wei.s = <<>> THEN 0 ELSE ParseDigits(args.balance_wei.s), 10)

C4_Witness ==
    /\ CF_Returned
    /\ args.address = ADDR_A
    /\ args.eth_txs = <<E_recv2>>
    /\ args.token_txs = <<>>
    /\ Feature("Sent tnx") = Num(0)
    /\ Feature("total Ether sent") = Num(1)
    /\ Feature("total ether received") = [n |-> 1, d |-> 2]

\* C5: for the sent, received and contract-interaction sets independently, min, max
\* and mean keep their defaults when the set is empty and are the min, max and mean
\* of the converted values otherwise.
C5_StatsOf(txs, kmin, kmax, kavg) ==
    IF txs = <<>>
    THEN /\ Feature(kmin) = FEATURE_DEFAULTS[kmin]
         /\ Feature(kmax) = FEATURE_DEFAULTS[kmax]
         /\ Feature(kavg) = FEATURE_DEFAULTS[kavg]
    ELSE /\ IsMinOf(Feature(kmin), ExpEthers(txs))
         /\ IsMaxOf(Feature(kmax), ExpEthers(txs))
         /\ IsMeanOf(Feature(kavg), ExpEthers(txs))

C5_StatsOnlyWhenNonEmpty ==
    (CF_Returned /\ ~CF_Empty) =>
        /\ C5_StatsOf(ExpSent, "min val sent", "max val sent", "avg val sent")
        /\ C5_StatsOf(ExpReceived, "min value received", "max value received ",
                      "avg val received")
        /\ C5_StatsOf(ExpContract, "min value sent to contract",
                      "max val sent to contract", "avg value sent to contract")

C5_Witness ==
    /\ CF_Returned
    /\ args.address = ADDR_A
    /\ args.eth_txs = <<E_sent1, E_sent2, E_sent3>>
    /\ args.token_txs = <<>>
    /\ Feature("Sent tnx") = Num(3)
    /\ Feature("total Ether sent") = Num(6)
    /\ Feature("avg val sent") = Num(2)
    /\ Feature("min value received") = Num(0)
    /\ Feature("max value received ") = Num(1)
    /\ Feature("avg val received") = [n |-> 1, d |-> 10]

\* C6: when records exist but no sent or received native transaction carries a
\* timestamp, "Time Diff between first and last (Mins)" keeps its default 177918.47;
\* otherwise it is (max - min) / 60 over the sent and received timestamps.
C6_TimeDiff ==
    (CF_Returned /\ ~CF_Empty) =>
        LET T == ExpTimes(ExpSent) \cup ExpTimes(ExpReceived)
            f == Feature("Time Diff between first and last (Mins)")
        IN IF T = {}
           THEN REq(f, 17791847, 100)
           ELSE \E lo \in T, hi \in T :
                   /\ \A t \in T : lo <= t /\ t <= hi
                   /\ REq(f, hi - lo, 60)

C6_Witness ==
    /\ CF_Returned
    /\ args.address = ADDR_A
    /\ args.eth_txs = <<E_sent3>>
    /\ Feature("Sent tnx") = Num(1)
    /\ Feature("Time Diff between first and last (Mins)") = [n |-> 17791847, d |-> 100]

\* C7: compute_avg_time_between returns 0.0 for fewer than 2 timestamps, and else
\* the mean of the consecutive gaps of the ascending list, divided by 60, whatever
\* the order the timestamps come in.
Reorderings(ts) ==
    {[i \in 1..Len(ts) |-> ts[p[i]]] :
        p \in {q \in [1..Len(ts) -> 1..Len(ts)] : \A i, j \in 1..Len(ts) : q[i] = q[j] => i = j}}

Ascending(ts) ==
    CHOOSE s \in Reorderings(ts) : \A i \in 1..(Len(s) - 1) : s[i] <= s[i + 1]

RECURSIVE GapSum(_)
GapSum(s) == IF Len(s) < 2 THEN 0 ELSE (s[2] - s[1]) + GapSum(Tail(s))

C7_AvgTimeBetween ==
    AT_Done =>
        LET ts == args.timestamps
            v == result.value
        IN /\ ~result.raised
           /\ Len(ts) < 2 => v = Num(0)
           /\ Len(ts) >= 2 => REq(v, GapSum(Ascending(ts)), 60 * (Len(ts) - 1))
           /\ \A other \in Reorderings(ts) : compute_avg_time_between(other) = v

C7_Witness ==
    /\ AT_Done
    /\ args.timestamps = <<220, 100, 160>>
    /\ result.value = Num(1)

\* C8: in every returned vector, the all-defaults one included, "Unique Sent To
\* Addresses" <= "Sent tnx" and "Unique Received From Addresses" <= "Received Tnx".
C8_UniqueAtMostCount ==
    CF_Returned =>
        /\ RLeq(Feature("Unique Sent To Addresses"), Feature("Sent tnx"))
        /\ RLeq(Feature("Unique Received From Addresses"), Feature("Received Tnx"))

C8_Witness ==
    /\ CF_Returned
    /\ args.eth_txs = <<E_sent1, E_sent2>>
    /\ Feature("Sent tnx") = Num(2)
    /\ Feature("Unique Sent To Addresses") = Num(1)

\* C9: with a classifier loaded, is_fraud is p >= 0.5; confidence is high for
\* p >= 0.85 or p <= 0.15, else medium for p >= 0.70 or p <= 0.30, else low;
\* model_loaded is true.
C9_Thresholds ==
    (PR_Done /\ detector.model) =>
        LET p == oracle
            r == result.value
        IN /\ ~result.raised
           /\ r.is_fraud <=> (2 * p.n >= p.d)
           /\ r.confidence =
                 (IF 100 * p.n >= 85 * p.d \/ 100 * p.n <= 15 * p.d THEN "high"
                  ELSE IF 100 * p.n >= 70 * p.d \/ 100 * p.n <= 30 * p.d THEN "medium"
                  ELSE "low")
           /\ r.fraud_probability = p
           /\ r.model_loaded

C9_Witness ==
    /\ PR_Done /\ detector.model
    /\ oracle = [n |-> 1, d |-> 2]
    /\ result.value.is_fraud
    /\ result.value.confidence = "low"

\* C10: without a classifier, predict does not fail and returns one fixed placeholder
\* (not fraud, low confidence, model_loaded false) whatever the feature vector, and
\* makes no preprocessing or model call.
C10_Placeholder ==
    (PR_Done /\ ~detector.model) =>
        /\ ~result.raised
        /\ result.value = [is_fraud |-> FALSE, fraud_probability |-> [n |-> 3, d |-> 20],
                           confidence |-> "low", model_loaded |-> FALSE]
        /\ calls.preprocess = 0
        /\ calls.predict_proba = 0

C10_Witness ==
    /\ PR_Done /\ ~detector.model
    /\ args.features # FEATURE_DEFAULTS
    /\ oracle = [n |-> 9, d |-> 10]
    /\ result.value.model_loaded = FALSE
    /\ result.value.is_fraud = FALSE

EX_Done == pc = "done" /\ op = "explain"

\* explain takes the fallback path: SHAP is not installed or no explainer was built
FallbackMode == ~detector.shap_available \/ ~detector.explainer

\* a mapping that carries all 47 columns
FullVector(features) == Range(FEATURE_COLUMNS) \subseteq DOMAIN features

\* C11: explain called with a negative top_n raises an error, in exact and in
\* fallback mode, and returns no attribution entries.
C11_NegativeTopNRaises ==
    (EX_Done /\ args.top_n < 0) => result.raised

\* C12: for top_n >= 0 explain returns at most top_n entries, none for top_n = 0,
\* and in fallback mode exactly min(top_n, 8); it returns for every complete
\* feature vector, and in fallback mode for every mapping.
C12_AtMostTopN ==
    (EX_Done /\ args.top_n >= 0) =>
        /\ (FallbackMode \/ FullVector(args.features)) => ~result.raised
        /\ ~result.raised =>
              /\ Len(result.value) <= args.top_n
              /\ (args.top_n = 0) => (result.value = <<>>)
              /\ FallbackMode =>
                    Len(result.value) = (IF args.top_n < 8 THEN args.top_n ELSE 8)

C12_Witness ==
    /\ EX_Done /\ args.top_n = 9
    /\ FallbackMode
    /\ ~result.raised
    /\ Len(result.value) = 8

\* C13: in fallback mode explain returns a prefix of one fixed list of feature
\* names, whatever the feature values, and every entry has importance 0.0 and
\* impact "unknown".
C13_FallbackFixedList ==
    (EX_Done /\ FallbackMode) =>
        /\ ~result.raised
        /\ Len(result.value) <= 8
        /\ \A i \in 1..Len(result.value) :
              /\ result.value[i].feature =
                    <<"ERC20_most_rec_token_type", "Total ERC20 tnxs",
                      "Time Diff between first and last (Mins)",
                      "Unique Received From Addresses", "ERC20 most sent token type",
                      "avg val received", "Sent tnx", "Unique Sent To Addresses">>[i]
              /\ result.value[i].importance = [n |-> 0, d |-> 1]
              /\ result.value[i].impact = "unknown"

C13_Witness ==
    /\ EX_Done /\ FallbackMode
    /\ detector.model
    /\ args.features # FEATURE_DEFAULTS
    /\ Len(result.value) = 3
    /\ result.value[3].feature = "Time Diff between first and last (Mins)"
    /\ result.value[3].value # FEATURE_DEFAULTS["Time Diff between first and last (Mins)"]

PP_Done == pc = "done" /\ op = "preprocess"

\* the encoding table of d does not know this value of the categorical column col
Unseen(d, col, value) ==
    \/ col \notin DOMAIN d.label_encoders
    \/ ~EncoderKnows(d.label_encoders[col], StrOf(value))

\* the position of a column in the emitted row
ColumnAt(col) == CHOOSE i \in 1..Len(FEATURE_COLUMNS) : FEATURE_COLUMNS[i] = col

\* C14: _preprocess does not raise on a complete vector, and a categorical value
\* the encoding table does not know (or that has no table) gets one code, the
\* same for every unseen value, every detector and every process hash seed.
C14_FixedFallbackCode ==
    (PP_Done /\ FullVector(args.features)) =>
        /\ ~result.raised
        /\ \A k \in 1..Len(CAT_COLS) :
              Unseen(detector, CAT_COLS[k], args.features[CAT_COLS[k]]) =>
                 \A d2 \in Detectors, s2 \in HashSeeds, f2 \in SampleFeatures :
                    Unseen(d2, CAT_COLS[k], f2[CAT_COLS[k]]) =>
                       result.value[ColumnAt(CAT_COLS[k])].value =
                          EncodeCategory(d2, s2, CAT_COLS[k], f2[CAT_COLS[k]])

\* C15: compute_features returns a mapping whose keys are exactly the 47 names of
\* FEATURE_COLUMNS, and _preprocess emits its columns in FEATURE_COLUMNS order
\* whatever the key order of the mapping it is given.
C15_KeysAndColumnOrder ==
    /\ CF_Returned =>
          /\ DOMAIN result.value = Range(FEATURE_COLUMNS)
          /\ Cardinality(DOMAIN result.value) = 47
    /\ (PP_Done /\ ~result.raised) =>
          /\ Len(result.value) = 47
          /\ \A i \in 1..47 : result.value[i].col = FEATURE_COLUMNS[i]

C15_Witness ==
    /\ PP_Done /\ ~result.raised
    /\ args.keys = [i \in 1..47 |-> FEATURE_COLUMNS[48 - i]]
    /\ args.keys[1] = " ERC20_most_rec_token_type"
    /\ result.value[1].col = "Avg min between sent tnx"
    /\ result.value[47].col = " ERC20_most_rec_token_type"

\* C17: no native transaction is counted both as sent and as received, so
\* "Sent tnx" + "Received Tnx" is at most the total transaction count.
C17_SentPlusReceivedAtMostTotal ==
    CF_Returned =>
        RLeq(RAdd(Feature("Sent tnx"), Feature("Received Tnx")),
             Feature("total transactions (including tnx to create contract"))

\* the tier the confidence rule gives a probability
TierOf(p) ==
    IF 100 * p.n >= 85 * p.d \/ 100 * p.n <= 15 * p.d THEN "high"
    ELSE IF 100 * p.n >= 70 * p.d \/ 100 * p.n <= 30 * p.d THEN "medium"
    ELSE "low"

\* C18 as stated: in every result of predict, with or without a classifier, the
\* confidence is the rule's tier of the result's own fraud_probability and
\* is_fraud is fraud_probability >= 0.5.
C18_ConfidenceMatchesRule ==
    (PR_Done /\ ~result.raised) =>
        /\ result.value.confidence = TierOf(result.value.fraud_probability)
        /\ result.value.is_fraud <=>
              (2 * result.value.fraud_probability.n >= result.value.fraud_probability.d)

\* C18 amended: is_fraud is fraud_probability >= 0.5 in every result; the
\* confidence is the rule's tier of fraud_probability when a classifier is loaded,
\* and "low" beside the probability 0.15 in the placeholder.
C18_ConfidenceMatchesRuleWhenLoaded ==
    (PR_Done /\ ~result.raised) =>
        /\ result.value.is_fraud <=>
              (2 * result.value.fraud_probability.n >= result.value.fraud_probability.d)
        /\ result.value.model_loaded =>
              result.value.confidence = TierOf(result.value.fraud_probability)
        /\ ~result.value.model_loaded =>
              /\ result.value.confidence = "low"
              /\ result.value.fraud_probability = [n |-> 3, d |-> 20]

C18_Witness ==
    /\ PR_Done /\ ~result.raised
    /\ result.value.model_loaded
    /\ result.value.fraud_probability = [n |-> 3, d |-> 20]
    /\ result.value.confidence = "high"
    /\ ~result.value.is_fraud

\* C16: whatever the interleaving of the compute_features calls, the shared
\* FEATURE_DEFAULTS map keeps its entries, and every finished call has the
\* outcome of the same call run alone on the same arguments.
C16_NoSharedMutation ==
    /\ feature_defaults = FEATURE_DEFAULTS
    /\ \A t \in Threads :
          threads[t].pc = "done" =>
             threads[t].result =
                compute_features(FEATURE_DEFAULTS, threads[t].args.address,
                                 threads[t].args.eth_txs, threads[t].args.token_txs,
                                 threads[t].args.balance_wei)

C16_Witness ==
    /\ threads[1].pc = "done"
    /\ ~threads[1].result.raised
    /\ threads[1].result.value # FEATURE_DEFAULTS
    /\ threads[2].pc = "eth_done"
    /\ threads[2].args # threads[1].args
    /\ threads[2].features.map # FEATURE_DEFAULTS

\* what a client was handed so far, read or still waiting in its queue
Got(c) == stream[c].received \o queues[c]

\* the publish under way has not come to client c yet
NotYetReached(c) ==
    /\ sse_clients_lock # "free"
    /\ \E i \in 1..Len(sse_clients) :
          sse_clients[i] = c /\ i >= publisher[sse_clients_lock].index

\* C19: under concurrent publishes, registrations and removals, a client that
\* stays registered and is never found full gets every event published after its
\* registration exactly once, all clients in the one publish order; a client found
\* full is removed and gets no later event; no client is removed twice and no
\* removal of an absent queue raises.
C19_SseDelivery ==
    /\ ~sse_log.raised
    /\ \A c \in Clients :
          /\ sse_log.removals[c] <= 1
          /\ CountIn(sse_clients, c) <= 1
          /\ \A i \in 1..Len(Got(c)) : Got(c)[i] = sse_log.registered_at[c] + i
          /\ (c \in Range(sse_clients) /\ sse_log.dropped_at[c] = 0) =>
                Len(Got(c)) = sse_log.published - sse_log.registered_at[c]
                              - (IF NotYetReached(c) THEN 1 ELSE 0)
          /\ sse_log.dropped_at[c] # 0 =>
                /\ Len(Got(c)) = sse_log.dropped_at[c] - 1 - sse_log.registered_at[c]
                /\ sse_clients_lock = "free" =>
                      /\ c \notin Range(sse_clients)
                      /\ sse_log.removals[c] = 1

C19_Witness ==
    /\ sse_clients_lock = "free"
    /\ sse_log.published = 3
    /\ sse_log.dropped_at[1] = 3
    /\ sse_log.removals[1] = 1
    /\ stream[1].pc = "closed"
    /\ sse_clients = <<2>>
    /\ sse_log.registered_at[2] = 1
    /\ Got(2) = <<2, 3>>

====
